---- MODULE Spec2Model ----
(***************************************************************************)
(* Turn-resolution engine of the team Connect Four server: the board       *)
(* model (GameEngine), the vote tally and column decision                  *)
(* (MajorityTurnDecider), the voting-window state machine (TurnManager)    *)
(* driven by a FakeClock, and the socket handlers that orchestrate them    *)
(* (SocketServer, RoomService).                                            *)
(***************************************************************************)
EXTENDS Integers, Sequences, FiniteSets, TLC

VARIABLES
  \* GameState (types/index.ts)
  board, currentTeam, round, votes, perColumnCounts, endsAt, lastMove, result,
  \* Room.players: id -> [team, connected, isAdmin, matchingVotes]
  players,
  \* FakeClock
  currentTime, timeouts, nextTimeoutId,
  \* TurnManager private fields
  currentTimeout, completionCallback,
  \* value returned by the last TurnManager call
  ret,
  \* observers: windows opened by startVoting, moves placed on the board,
  \* completion-callback invocations since the last startVoting, whether
  \* finishVoting ran since the last startVoting, and the timer callbacks
  \* that reached the completion callback
  windowsOpened, movesApplied, cbCalls, finished, fired,
  \* the stored Room's state and passwordHash, the socket handlers in
  \* flight (each with the state field of the room copy it holds) and the
  \* pending continuations of processTurnCompletion
  roomState, passwordHash, handlers, ptc

gameVars == <<board, currentTeam, round, votes, perColumnCounts, endsAt, lastMove, result>>
clockVars == <<currentTime, timeouts, nextTimeoutId>>
tmVars == <<currentTimeout, completionCallback>>
obsVars == <<windowsOpened, movesApplied, cbCalls, finished, fired>>
serverVars == <<roomState, passwordHash, handlers, ptc>>
vars == <<gameVars, players, clockVars, tmVars, ret, obsVars, serverVars>>

----------------------------------------------------------------------------
\* Program constants

NumRows == 6
NumCols == 7
WinLength == 4
MsPerSec == 1000

Rows == 0 .. (NumRows - 1)
Cols == 0 .. (NumCols - 1)
Teams == {"red", "yellow"}
Empty == "null"

\* Bounds of the exploration
MaxWindows == 2
MaxMoves == 1
MaxTicks == 2
MaxServerMoves == 2
MaxEnginePieces == 7
MaxExtraCells == 1
MaxCount == 2

TimerSecs == {1, 2}
TickAmounts == {MsPerSec}
\* columns offered to castVote: below range, full in FullColumnGame, an
\* ordinary column, above range
VoteColumns == {-1, 0, 3, NumCols}
\* the roster, in join order (RoomService.joinRoom balances the teams), and
\* an id that is not in it
PlayerIds == {"p1", "p2", "p3"}
CallerIds == PlayerIds \cup {"ghost"}

\* optional values: <<>> is undefined, <<v>> is v
Undefined == << >>
Some(v) == <<v>>
IsSet(o) == o # Undefined
Val(o) == o[1]

----------------------------------------------------------------------------
\* GameEngine

EmptyBoard == [r \in Rows |-> [c \in Cols |-> Empty]]

\* variant: the team to move stays the same
nextTeamSame(team) == team

nextTeam(team) == IF team = "red" THEN "yellow" ELSE "red"

\* variant: the cell examined is the bottom one
isValidMoveBottomCell(b, col) ==
  IF col < 0 \/ col >= NumCols THEN FALSE ELSE b[NumRows - 1][col] = Empty

isValidMove(b, col) ==
  IF col < 0 \/ col >= NumCols THEN FALSE ELSE b[0][col] = Empty

\* variant: the piece stops one row above the lowest empty cell
targetRowFloating(b, col) ==
  LET empties == {r \in Rows : b[r][col] = Empty}
  IN IF empties = {} THEN -1
     ELSE LET low == CHOOSE r \in empties : \A q \in empties : q <= r
          IN IF low > 0 THEN low - 1 ELSE low

\* variant: the scan starts at the top row
targetRowFromTop(b, col) ==
  LET empties == {r \in Rows : b[r][col] = Empty}
  IN IF empties = {} THEN -1 ELSE CHOOSE r \in empties : \A q \in empties : r <= q

\* rows of column col that are empty, scanned from the bottom row upward:
\* the first one found is the largest row index
targetRow(b, col) ==
  LET empties == {r \in Rows : b[r][col] = Empty}
  IN IF empties = {} THEN -1 ELSE CHOOSE r \in empties : \A q \in empties : q <= r

\* applyMove: [ok, board, row]; ok = FALSE stands for the thrown Error
applyMove(b, col, team) ==
  IF ~isValidMove(b, col) THEN [ok |-> FALSE, board |-> b, row |-> -1]
  ELSE LET row == targetRow(b, col)
       IN IF row = -1 THEN [ok |-> FALSE, board |-> b, row |-> -1]
          ELSE [ok |-> TRUE,
                board |-> [b EXCEPT ![row][col] = team],
                row |-> row]

\* variant: the piece is written into the argument itself
applyMoveArgumentAliased(b, col, team) == applyMove(b, col, team).board

\* the argument board after the call: the writes go to the deep copy
applyMoveArgument(b, col, team) == b

InBounds(col, row) == col >= 0 /\ col < NumCols /\ row >= 0 /\ row < NumRows

RECURSIVE walkBack(_, _, _, _, _, _)
walkBack(b, col, row, team, dc, dr) ==
  IF InBounds(col, row) /\ b[row][col] = team
  THEN walkBack(b, col - dc, row - dr, team, dc, dr)
  ELSE [col |-> col, row |-> row]

RECURSIVE walkForward(_, _, _, _, _, _)
walkForward(b, col, row, team, dc, dr) ==
  IF InBounds(col, row) /\ b[row][col] = team
  THEN <<[col |-> col, row |-> row]>> \o walkForward(b, col + dc, row + dr, team, dc, dr)
  ELSE << >>

checkDirection(b, startCol, startRow, team, dc, dr) ==
  LET edge == walkBack(b, startCol, startRow, team, dc, dr)
  IN walkForward(b, edge.col + dc, edge.row + dr, team, dc, dr)

\* variant: only the horizontal and the vertical direction are examined
directionsStraight ==
  << [deltaCol |-> 1, deltaRow |-> 0],
     [deltaCol |-> 0, deltaRow |-> 1] >>

directions ==
  << [deltaCol |-> 1, deltaRow |-> 0],
     [deltaCol |-> 0, deltaRow |-> 1],
     [deltaCol |-> 1, deltaRow |-> 1],
     [deltaCol |-> 1, deltaRow |-> -1] >>

\* variant: the whole run is returned
sliceLineWhole(line) == line

\* line.slice(0, 4)
sliceLine(line) == SubSeq(line, 1, WinLength)

\* checkWin: [winner, winningLine] as optional values; the result is that
\* of the first direction, in the order of directions, whose line has four
\* cells or more
checkWin(b, move) ==
  LET line(i) == checkDirection(b, move.col, move.row, move.team,
                                directions[i].deltaCol, directions[i].deltaRow)
      hits == {i \in 1 .. Len(directions) : Len(line(i)) >= WinLength}
  IN IF hits = {} THEN [winner |-> Undefined, winningLine |-> Undefined]
     ELSE CHOOSE found \in
            {[winner |-> Some(move.team), winningLine |-> Some(sliceLine(line(first)))] :
               first \in {i \in hits : \A j \in hits : i <= j}} : TRUE

\* variant: the top row is tested for empty cells only
isBoardFullInverted(b) == \A c \in Cols : b[0][c] = Empty

\* variant: a full board is not recognised
isBoardFullNever(b) == FALSE

isBoardFull(b) == \A c \in Cols : b[0][c] # Empty

----------------------------------------------------------------------------
\* MajorityTurnDecider

\* variant: every vote for a column of the board is counted
tallyVotesInRange(v, validCols) ==
  [c \in Cols |-> Cardinality({p \in DOMAIN v : v[p] = c})]

tallyVotes(v, validCols) ==
  [c \in Cols |->
     Cardinality({p \in DOMAIN v : v[p] = c /\ v[p] \in validCols
                                    /\ v[p] >= 0 /\ v[p] < NumCols})]

RECURSIVE sumCounts(_, _)
sumCounts(counts, cs) ==
  IF cs = {} THEN 0
  ELSE LET c == CHOOSE x \in cs : TRUE
       IN counts[c] + sumCounts(counts, cs \ {c})

\* variant: the first column of the list is taken
pickRandomColumnFirst(columns) ==
  IF columns = {} THEN {0} ELSE {CHOOSE c \in columns : \A d \in columns : c <= d}

\* the columns Math.random can select from the list
pickRandomColumn(columns) == IF columns = {} THEN {0} ELSE columns

maxVotes(counts, validCols) ==
  LET cand == {counts[c] : c \in (DOMAIN counts) \cap validCols} \cup {0}
  IN CHOOSE m \in cand : \A k \in cand : k <= m

\* variant: any column of the board is returned
decideColumnAnyColumn(counts, validCols) == Cols

\* variant: the counts are ignored
decideColumnAnyValid(counts, validCols) == pickRandomColumn(validCols)

\* decideColumn: the set of columns the call can return
decideColumn(counts, validCols) ==
  IF sumCounts(counts, DOMAIN counts) = 0 THEN pickRandomColumn(validCols)
  ELSE IF maxVotes(counts, validCols) = 0 THEN pickRandomColumn(validCols)
  ELSE pickRandomColumn({c \in (DOMAIN counts) \cap validCols :
                           counts[c] = maxVotes(counts, validCols)})

----------------------------------------------------------------------------
\* FakeClock

\* setTimeout: push, then the stable sort by triggerTime
\* variant: the timer is not scheduled
insertTimeoutDropped(ts, t) == ts

insertTimeout(ts, t) ==
  LET before == SelectSeq(ts, LAMBDA x : x.triggerTime <= t.triggerTime)
      after == SelectSeq(ts, LAMBDA x : x.triggerTime > t.triggerTime)
  IN before \o <<t>> \o after

clearTimeout(ts, handle) ==
  IF IsSet(handle) THEN SelectSeq(ts, LAMBDA x : x.id # Val(handle)) ELSE ts

\* tick: the timeouts whose callbacks run, in order, and those left pending
tickDue(ts, target) == SelectSeq(ts, LAMBDA x : x.triggerTime <= target)
\* variant: a fired timeout is not removed from the list
tickRemainingKeepsFired(ts, target) == ts

tickRemaining(ts, target) == SelectSeq(ts, LAMBDA x : x.triggerTime > target)

----------------------------------------------------------------------------
\* TurnManager

\* variant: the timer callback finds no completion callback
CallbackDropped == FALSE

CallbackSet == completionCallback # "none"

\* variant: castVote without the window check
windowNeverClosed == FALSE

\* !gameState.endsAt
windowClosed == ~IsSet(endsAt) \/ Val(endsAt) = 0

\* variant: full columns are not filtered out
validColumnsOfAll(b) == Cols

validColumnsOf(b) == {c \in Cols : isValidMove(b, c)}

setCompletionCallback(kind) ==
  /\ completionCallback' = kind
  /\ UNCHANGED currentTimeout

\* variant: the timer taken as milliseconds
deadlineInMs(now, timerSec) == now + timerSec

deadlineOf(now, timerSec) == now + timerSec * MsPerSec

\* variant: the previous timeout is not cleared
startVotingKeepsTimeout(ts, handle) == ts

startVotingTimeouts(ts, handle) == clearTimeout(ts, handle)

\* startVoting: the game, clock and manager fields it writes
startVoting(timerSec) ==
  /\ endsAt' = Some(deadlineOf(currentTime, timerSec))
  /\ timeouts' = insertTimeout(startVotingTimeouts(timeouts, currentTimeout),
                               [id |-> nextTimeoutId,
                                triggerTime |-> currentTime + timerSec * MsPerSec,
                                win |-> windowsOpened + 1])
  /\ nextTimeoutId' = nextTimeoutId + 1
  /\ currentTimeout' = Some(nextTimeoutId)
  /\ windowsOpened' = windowsOpened + 1
  /\ cbCalls' = 0
  /\ finished' = FALSE
  /\ UNCHANGED <<board, currentTeam, round, votes, perColumnCounts, lastMove, result,
                 players, currentTime, movesApplied, fired>>

\* variant: the player's team is not compared with the team to move
castVoteResultAnyTeam(playerId, column) ==
  IF windowClosed THEN [success |-> FALSE, error |-> "Voting window is closed"]
  ELSE IF playerId \notin DOMAIN players THEN [success |-> FALSE, error |-> "Player not found"]
  ELSE IF column < 0 \/ column >= NumCols THEN [success |-> FALSE, error |-> "Invalid column"]
  ELSE IF ~isValidMove(board, column) THEN [success |-> FALSE, error |-> "Column is full"]
  ELSE [success |-> TRUE, error |-> ""]

\* variant: a vote for a full column is accepted
castVoteResultFullColumn(playerId, column) ==
  IF windowClosed THEN [success |-> FALSE, error |-> "Voting window is closed"]
  ELSE IF playerId \notin DOMAIN players THEN [success |-> FALSE, error |-> "Player not found"]
  ELSE IF players[playerId].team # currentTeam THEN [success |-> FALSE, error |-> "Not your team's turn"]
  ELSE IF column < 0 \/ column >= NumCols THEN [success |-> FALSE, error |-> "Invalid column"]
  ELSE [success |-> TRUE, error |-> ""]

\* variant: the column is validated before the player's team
castVoteResultColumnFirst(playerId, column) ==
  IF windowClosed THEN [success |-> FALSE, error |-> "Voting window is closed"]
  ELSE IF playerId \notin DOMAIN players THEN [success |-> FALSE, error |-> "Player not found"]
  ELSE IF column < 0 \/ column >= NumCols THEN [success |-> FALSE, error |-> "Invalid column"]
  ELSE IF players[playerId].team # currentTeam
    THEN [success |-> FALSE, error |-> "Not your team's turn"]
  ELSE IF ~isValidMove(board, column) THEN [success |-> FALSE, error |-> "Column is full"]
  ELSE [success |-> TRUE, error |-> ""]

\* castVote: the VoteResult
castVoteResult(playerId, column) ==
  IF windowClosed THEN [success |-> FALSE, error |-> "Voting window is closed"]
  ELSE IF playerId \notin DOMAIN players THEN [success |-> FALSE, error |-> "Player not found"]
  ELSE IF players[playerId].team # currentTeam
    THEN [success |-> FALSE, error |-> "Not your team's turn"]
  ELSE IF column < 0 \/ column >= NumCols THEN [success |-> FALSE, error |-> "Invalid column"]
  ELSE IF ~isValidMove(board, column) THEN [success |-> FALSE, error |-> "Column is full"]
  ELSE [success |-> TRUE, error |-> ""]

\* variant: the votes map is replaced by the new vote alone
recordVoteAlone(v, playerId, column) == [p \in {playerId} |-> column]

recordVote(v, playerId, column) ==
  [p \in (DOMAIN v) \cup {playerId} |-> IF p = playerId THEN column ELSE v[p]]

\* variant: the vote is written as soon as the player is found
castVoteVotesEarly(playerId, column) ==
  IF ~windowClosed /\ playerId \in DOMAIN players
  THEN recordVote(votes, playerId, column)
  ELSE votes

castVoteVotes(playerId, column) ==
  IF castVoteResult(playerId, column).success THEN recordVote(votes, playerId, column)
  ELSE votes

castVote(playerId, column) ==
  /\ votes' = castVoteVotes(playerId, column)
  /\ UNCHANGED <<board, currentTeam, round, perColumnCounts, endsAt, lastMove, result,
                 players, clockVars, tmVars, obsVars>>

\* variant: every voter of the active team is credited
matchingPlayersAnyVote(chosenColumn) ==
  {p \in DOMAIN players : /\ players[p].team = currentTeam
                          /\ p \in DOMAIN votes}

matchingPlayers(chosenColumn) ==
  {p \in DOMAIN players : /\ players[p].team = currentTeam
                          /\ p \in DOMAIN votes
                          /\ votes[p] = chosenColumn}

\* variant: the votes are kept after the resolution
finishVotingKeepsVotes(v) == v

\* gameState.votes = {}
finishVotingVotes(v) == << >>

\* variant: the round is not counted
nextRoundSame(r) == r

\* gameState.round++
nextRound(r) == r + 1

\* finishVoting once the column is decided: the try block and its results
finishVotingApply(chosenColumn, counts) ==
  \E moveResult \in {applyMove(board, chosenColumn, currentTeam)} :
  \E move \in {[col |-> chosenColumn, row |-> moveResult.row, team |-> currentTeam]} :
  \E winResult \in {checkWin(moveResult.board, move)} :
  /\ perColumnCounts' = counts
  /\ players' = [p \in DOMAIN players |->
                   IF p \in matchingPlayers(chosenColumn)
                   THEN [players[p] EXCEPT !.matchingVotes = @ + 1]
                   ELSE players[p]]
  /\ votes' = finishVotingVotes(votes)
  /\ IF ~moveResult.ok
     THEN /\ UNCHANGED <<board, lastMove, result, currentTeam, round, movesApplied>>
          /\ ret' = [op |-> "finishVoting", moveApplied |-> FALSE, gameEnded |-> FALSE,
                     chosenColumn |-> Undefined, error |-> Some("Invalid move")]
     ELSE /\ board' = moveResult.board
          /\ lastMove' = Some(move)
          /\ movesApplied' = movesApplied + 1
          /\ IF IsSet(winResult.winner)
             THEN /\ result' = Some([winner |-> Val(winResult.winner),
                                     winningLine |-> Val(winResult.winningLine)])
                  /\ UNCHANGED <<currentTeam, round>>
                  /\ ret' = [op |-> "finishVoting", moveApplied |-> TRUE, gameEnded |-> TRUE,
                             chosenColumn |-> Some(chosenColumn), error |-> Undefined]
             ELSE IF isBoardFull(moveResult.board)
             THEN /\ result' = Some([draw |-> TRUE])
                  /\ UNCHANGED <<currentTeam, round>>
                  /\ ret' = [op |-> "finishVoting", moveApplied |-> TRUE, gameEnded |-> TRUE,
                             chosenColumn |-> Some(chosenColumn), error |-> Undefined]
             ELSE /\ currentTeam' = nextTeam(currentTeam)
                  /\ round' = nextRound(round)
                  /\ UNCHANGED result
                  /\ ret' = [op |-> "finishVoting", moveApplied |-> TRUE, gameEnded |-> FALSE,
                             chosenColumn |-> Some(chosenColumn), error |-> Undefined]

finishVotingEndsAt == Undefined

\* finishVoting, with the clock's timeouts ts and the manager's handle as
\* the call finds them: everything it writes, for each column the decider
\* can return
finishVotingWith(ts, handle) ==
  /\ endsAt' = finishVotingEndsAt
  /\ timeouts' = clearTimeout(ts, handle)
  /\ currentTimeout' = Undefined
  /\ finished' = TRUE
  /\ UNCHANGED <<currentTime, nextTimeoutId, completionCallback, windowsOpened>>
  /\ IF validColumnsOf(board) = {}
     THEN /\ result' = Some([draw |-> TRUE])
          /\ ret' = [op |-> "finishVoting", moveApplied |-> FALSE, gameEnded |-> TRUE,
                     chosenColumn |-> Undefined, error |-> Undefined]
          /\ UNCHANGED <<board, currentTeam, round, votes, perColumnCounts, lastMove,
                         players, movesApplied>>
     ELSE \E validColumns \in {validColumnsOf(board)} :
          \E counts \in {tallyVotes(votes, validColumns)} :
          \E chosenColumn \in decideColumn(counts, validColumns) :
            finishVotingApply(chosenColumn, counts)

finishVoting ==
  /\ finishVotingWith(timeouts, currentTimeout)
  /\ UNCHANGED <<cbCalls, fired>>

\* variant: disconnected players are waited for as well
hasAllTeamVotedWholeRoster ==
  \A p \in DOMAIN players : players[p].team = currentTeam => p \in DOMAIN votes

hasAllTeamVoted ==
  \A p \in DOMAIN players :
    (players[p].team = currentTeam /\ players[p].connected) => p \in DOMAIN votes

getTeamVoteCounts(team) ==
  LET teamVotes == [p \in {q \in DOMAIN players :
                             players[q].team = team /\ q \in DOMAIN votes} |-> votes[p]]
  IN tallyVotes(teamVotes, validColumnsOf(board))

\* the timer callback of startVoting, run for each due timeout of a tick
RECURSIVE firedAfter(_, _, _)
firedAfter(due, f, handle) ==
  IF due = << >> THEN f
  ELSE firedAfter(Tail(due),
                  f \cup {[win |-> Head(due).win,
                           latest |-> windowsOpened,
                           current |-> (handle = Some(Head(due).id)),
                           open |-> (endsAt = Some(Head(due).triggerTime))]},
                  Undefined)

\* variant: the timer callback deletes the deadline itself
timerCallbackEndsAtCleared(e, due) == IF due = << >> THEN e ELSE Undefined

\* the timer callback writes no field of the game state
timerCallbackEndsAt(e, due) == e

timerCallbacks(due) ==
  /\ currentTimeout' = IF due = << >> THEN currentTimeout ELSE Undefined
  /\ cbCalls' = IF CallbackSet THEN cbCalls + Len(due) ELSE cbCalls
  /\ fired' = IF CallbackSet THEN firedAfter(due, fired, currentTimeout) ELSE fired

----------------------------------------------------------------------------
\* Games a room can be in when the calls below start

NewGame ==
  [board |-> EmptyBoard, currentTeam |-> "red", round |-> 1, lastMove |-> Undefined]

\* column 0 filled by six alternating resolutions, red first
FullColumnBoard ==
  [r \in Rows |-> [c \in Cols |->
     IF c # 0 THEN Empty ELSE IF r % 2 = 1 THEN "red" ELSE "yellow"]]

FullColumnGame ==
  [board |-> FullColumnBoard, currentTeam |-> "red", round |-> NumRows + 1,
   lastMove |-> Some([col |-> 0, row |-> 0, team |-> "yellow"])]

InitGames == {NewGame, FullColumnGame}

teamOf(p) == IF p = "p2" THEN "yellow" ELSE "red"
joinOrder(p) == CASE p = "p1" -> 1 [] p = "p2" -> 2 [] p = "p3" -> 3 [] OTHER -> 4

InitPlayers ==
  [p \in PlayerIds |->
     [team |-> teamOf(p), connected |-> TRUE, isAdmin |-> (p = "p1"), matchingVotes |-> 0]]

HandlerIds == {"start", "v1", "v2"}
VoteHandlers == HandlerIds \ {"start"}
IdleHandler == [pc |-> "idle", room |-> "none"]

RoomInit(games, hash) ==
  /\ \E g \in games :
       /\ board = g.board
       /\ currentTeam = g.currentTeam
       /\ round = g.round
       /\ lastMove = g.lastMove
       /\ nextTimeoutId = g.round
  /\ votes = << >>
  /\ perColumnCounts = [c \in Cols |-> 0]
  /\ endsAt = Undefined
  /\ result = Undefined
  /\ players = InitPlayers
  /\ currentTime = 0
  /\ timeouts = << >>
  /\ currentTimeout = Undefined
  /\ completionCallback = "none"
  /\ ret = [op |-> "new"]
  /\ windowsOpened = 0
  /\ movesApplied = 0
  /\ cbCalls = 0
  /\ finished = FALSE
  /\ fired = {}
  /\ roomState = "lobby"
  /\ passwordHash = hash
  /\ handlers = [h \in HandlerIds |-> IdleHandler]
  /\ ptc = << >>

\* a room created without password
InitOf(games) == RoomInit(games, Undefined)

Init == InitOf(InitGames)

----------------------------------------------------------------------------
\* The TurnManager driven call by call, as its unit tests drive it

SetCompletionCallback ==
  /\ completionCallback = "none"
  /\ windowsOpened = 0
  /\ setCompletionCallback("counter")
  /\ ret' = [op |-> "setCompletionCallback"]
  /\ UNCHANGED <<gameVars, players, clockVars, obsVars, serverVars>>

StartVoting(timerSec) ==
  /\ windowsOpened < MaxWindows
  /\ startVoting(timerSec)
  /\ ret' = [op |-> "startVoting"]
  /\ UNCHANGED <<completionCallback, serverVars>>

CastVote(playerId, column) ==
  /\ castVote(playerId, column)
  /\ ret' = [op |-> "castVote"] @@ castVoteResult(playerId, column)
  /\ UNCHANGED serverVars

FinishVoting ==
  /\ movesApplied < MaxMoves
  /\ finishVoting
  /\ UNCHANGED serverVars

Tick(ms) ==
  /\ currentTime + ms <= MaxTicks * MsPerSec
  /\ currentTime' = currentTime + ms
  /\ timeouts' = tickRemaining(timeouts, currentTime + ms)
  /\ timerCallbacks(tickDue(timeouts, currentTime + ms))
  /\ endsAt' = timerCallbackEndsAt(endsAt, tickDue(timeouts, currentTime + ms))
  /\ ret' = [op |-> "tick"]
  /\ UNCHANGED <<board, currentTeam, round, votes, perColumnCounts, lastMove, result,
                 players, nextTimeoutId, completionCallback,
                 windowsOpened, movesApplied, finished, serverVars>>

Next ==
  \/ SetCompletionCallback
  \/ \E timerSec \in TimerSecs : StartVoting(timerSec)
  \/ \E playerId \in CallerIds, column \in VoteColumns : CastVote(playerId, column)
  \/ FinishVoting
  \/ \E ms \in TickAmounts : Tick(ms)

Spec == Init /\ [][Next]_vars

----------------------------------------------------------------------------
\* GameEngine.applyMove called on its own, each call on the board a
\* previous call returned or on the empty board

EngineInit == InitOf({NewGame})

ApplyMove(col, team) ==
  /\ \/ ~isValidMove(board, col)
     \/ Cardinality({<<r, c>> \in Rows \X Cols : board[r][c] # Empty}) < MaxEnginePieces
  /\ ret' = [op |-> "applyMove", col |-> col, team |-> team]
              @@ applyMove(board, col, team)
  /\ board' = applyMoveArgument(board, col, team)
  /\ UNCHANGED <<currentTeam, round, votes, perColumnCounts, endsAt, lastMove, result,
                 players, clockVars, tmVars, obsVars, serverVars>>

\* the caller goes on with the board the call returned
TakeBoard ==
  /\ "board" \in DOMAIN ret
  /\ ret.ok
  /\ board # ret.board
  /\ board' = ret.board
  /\ UNCHANGED <<currentTeam, round, votes, perColumnCounts, endsAt, lastMove, result,
                 players, clockVars, tmVars, ret, obsVars, serverVars>>

EngineNext ==
  \/ \E col \in VoteColumns, team \in Teams : ApplyMove(col, team)
  \/ TakeBoard

SpecEngine == EngineInit /\ [][EngineNext]_vars

----------------------------------------------------------------------------
\* GameEngine.checkWin called on boards whose cells were written directly,
\* as its unit tests write them

\* the cells of the board on the line through (col, row) along (dc, dr)
LineThrough(col, row, dc, dr) ==
  {<<col + k * dc, row + k * dr>> : k \in (1 - NumCols) .. (NumCols - 1)}
    \cap (Cols \X Rows)

BoardLines ==
  {LineThrough(c, r, directions[i].deltaCol, directions[i].deltaRow) :
     c \in Cols, r \in Rows, i \in DOMAIN directions}

\* game.board[row][col] = 'red' for the cells of S on a new board
RedOn(S) == [r \in Rows |-> [c \in Cols |-> IF <<c, r>> \in S THEN "red" ELSE Empty]]

\* red on three or more cells of one line, and red on two whole lines
LineBoards ==
  UNION {{RedOn(S) : S \in {T \in SUBSET L : Cardinality(T) >= WinLength - 1}} :
           L \in BoardLines}
CrossBoards == {RedOn(L1 \cup L2) : L1 \in BoardLines, L2 \in BoardLines}

\* up to n further cells written with either team
RECURSIVE WithExtraCells(_, _)
WithExtraCells(B, n) ==
  IF n = 0 THEN B
  ELSE WithExtraCells(B \cup {[b EXCEPT ![r][c] = t] :
                                b \in B, r \in Rows, c \in Cols, t \in Teams}, n - 1)

CheckWinBoards(n) == WithExtraCells(LineBoards, n) \cup CrossBoards

CheckWinGame(b) ==
  [board |-> b, currentTeam |-> "red", round |-> 1, lastMove |-> Undefined]

CheckWinInit == InitOf({CheckWinGame(b) : b \in CheckWinBoards(MaxExtraCells)})

\* checkWin for a last move at an occupied cell, with the team it holds:
\* one call on each board built
CheckWin(col, row) ==
  /\ ret.op = "new"
  /\ board[row][col] # Empty
  /\ \E move \in {[col |-> col, row |-> row, team |-> board[row][col]]} :
       ret' = [op |-> "checkWin", move |-> move] @@ checkWin(board, move)
  /\ UNCHANGED <<gameVars, players, clockVars, tmVars, obsVars, serverVars>>

CheckWinNext == \E col \in Cols, row \in Rows : CheckWin(col, row)

SpecCheckWin == CheckWinInit /\ [][CheckWinNext]_vars

----------------------------------------------------------------------------
\* MajorityTurnDecider called on its own, as its unit tests call it

\* members of a validCols argument: below range, columns, above range
DeciderColumns == {-1, 0, 3, NumCols - 1, NumCols}
\* columns that hold votes in a counts argument
CountedColumns == {0, 3, NumCols - 1}

VotesArguments == UNION {[P -> VoteColumns] : P \in SUBSET PlayerIds}
CountsArguments ==
  {K \in [Cols -> 0 .. MaxCount] : \A c \in Cols \ CountedColumns : K[c] = 0}

\* const votes = ..., const counts = ..., const validCols = ...
DeciderArguments(v, K, validCols) ==
  /\ votes' = v
  /\ perColumnCounts' = K
  /\ ret' = [op |-> "arguments", validCols |-> validCols]
  /\ UNCHANGED <<board, currentTeam, round, endsAt, lastMove, result,
                 players, clockVars, tmVars, obsVars, serverVars>>

TallyVotes ==
  /\ ret.op = "arguments"
  /\ ret' = [op |-> "tallyVotes", validCols |-> ret.validCols,
             counts |-> tallyVotes(votes, ret.validCols)]
  /\ UNCHANGED <<gameVars, players, clockVars, tmVars, obsVars, serverVars>>

DecideColumn ==
  /\ ret.op = "arguments"
  /\ \E column \in decideColumn(perColumnCounts, ret.validCols) :
       ret' = [op |-> "decideColumn", validCols |-> ret.validCols, column |-> column]
  /\ UNCHANGED <<gameVars, players, clockVars, tmVars, obsVars, serverVars>>

\* each test sets up its arguments once: votes for tallyVotes, counts for
\* decideColumn
DeciderSetup ==
  /\ ret.op = "new"
  /\ \/ \E v \in VotesArguments, validCols \in SUBSET DeciderColumns :
          DeciderArguments(v, [c \in Cols |-> 0], validCols)
     \/ \E K \in CountsArguments, validCols \in SUBSET DeciderColumns :
          DeciderArguments(<< >>, K, validCols)

DeciderNext ==
  \/ DeciderSetup
  \/ TallyVotes
  \/ DecideColumn

SpecDecider == InitOf({NewGame}) /\ [][DeciderNext]_vars

----------------------------------------------------------------------------
\* The same calls on games two moves from a full board

Rd == "red"
Yl == "yellow"
Em == Empty

BoardFromRows(rows) == [r \in Rows |-> [c \in Cols |-> rows[r + 1][c + 1]]]

\* forty pieces played in turn, no line of four; the top cells of columns 0
\* and 3 are empty and red is to move. Red in column 3 completes the
\* diagonal (3,0) (4,1) (5,2) (6,3); red in column 0 completes nothing and
\* yellow in column 3 then fills the board without a line.
DrawFillBoard ==
  BoardFromRows(<< <<Em, Yl, Rd, Em, Rd, Yl, Yl>>,
                   <<Rd, Yl, Rd, Yl, Rd, Yl, Rd>>,
                   <<Yl, Rd, Yl, Rd, Rd, Rd, Yl>>,
                   <<Yl, Rd, Yl, Rd, Yl, Rd, Rd>>,
                   <<Rd, Yl, Rd, Yl, Rd, Yl, Yl>>,
                   <<Rd, Yl, Rd, Yl, Rd, Yl, Yl>> >>)

\* as above, but red in column 3 completes the column, and after red in
\* column 0 yellow in column 3 fills the board and completes the top row
WinFillBoard ==
  BoardFromRows(<< <<Em, Yl, Rd, Em, Yl, Yl, Yl>>,
                   <<Rd, Yl, Rd, Rd, Rd, Yl, Rd>>,
                   <<Yl, Rd, Yl, Rd, Yl, Rd, Rd>>,
                   <<Yl, Rd, Yl, Rd, Yl, Yl, Yl>>,
                   <<Rd, Yl, Rd, Yl, Rd, Yl, Rd>>,
                   <<Yl, Yl, Rd, Yl, Rd, Rd, Rd>> >>)

EndGameOf(b) ==
  [board |-> b, currentTeam |-> "red", round |-> NumRows * NumCols - 1,
   lastMove |-> Some([col |-> NumCols - 1, row |-> 0, team |-> "yellow"])]

EndGames == {EndGameOf(DrawFillBoard), EndGameOf(WinFillBoard)}

EndgameInit == InitOf(EndGames)

\* finishVoting as often as it is called: the two empty cells bound the moves
EndgameFinishVoting ==
  /\ finishVoting
  /\ UNCHANGED serverVars

EndgameNext ==
  \/ SetCompletionCallback
  \/ \E timerSec \in TimerSecs : StartVoting(timerSec)
  \/ \E playerId \in CallerIds, column \in VoteColumns : CastVote(playerId, column)
  \/ EndgameFinishVoting
  \/ \E ms \in TickAmounts : Tick(ms)

SpecEndgame == EndgameInit /\ [][EndgameNext]_vars

----------------------------------------------------------------------------
\* The running server: SocketServer's handlers and RoomService over a
\* SystemClock, interleaved at their await points

\* room.settings.timerSec of the room
\* sanitizeRoomForClient: the passwordHash of the copy getRoom returns,
\* deleted from it whatever the stored room holds
sanitizeRoomForClient(hash) == Undefined

RoomTimerSec == CHOOSE s \in TimerSecs : \A t \in TimerSecs : s <= t
ServerVoteColumns == {3, NumCols}

ServerInit ==
  /\ Init
  /\ board = NewGame.board

ServerExploring == movesApplied < MaxServerMoves

\* processTurnCompletion up to its first await: finishVoting, then the
\* branch taken once getRoom has resolved
turnCompletionStart(ts, handle) ==
  /\ finishVotingWith(ts, handle)
  /\ ptc' = IF ret'.moveApplied
            THEN Append(ptc, IF ret'.gameEnded THEN "ended" ELSE "next")
            ELSE ptc

\* room:start, RoomService.startGame
RoomStart ==
  /\ ServerExploring
  /\ handlers["start"].pc = "idle"
  /\ roomState = "lobby"
  /\ \E p \in DOMAIN players : players[p].isAdmin /\ players[p].connected
  /\ Cardinality(DOMAIN players) >= 2
  /\ board' = NewGame.board
  /\ currentTeam' = NewGame.currentTeam
  /\ round' = NewGame.round
  /\ lastMove' = NewGame.lastMove
  /\ votes' = << >>
  /\ perColumnCounts' = [c \in Cols |-> 0]
  /\ endsAt' = Undefined
  /\ result' = Undefined
  /\ roomState' = "active"
  /\ handlers' = [handlers EXCEPT !["start"].pc = "voting"]
  /\ UNCHANGED <<players, clockVars, tmVars, ret, obsVars, passwordHash, ptc>>

\* room:start after startGame: the callback is registered and the first
\* window opened
RoomStartVoting ==
  /\ ServerExploring
  /\ handlers["start"].pc = "voting"
  /\ windowsOpened < MaxWindows
  /\ completionCallback' = "server"
  /\ startVoting(RoomTimerSec)
  /\ handlers' = [handlers EXCEPT !["start"].pc = "done"]
  /\ UNCHANGED <<ret, roomState, passwordHash, ptc>>

\* room:vote, RoomService.castVote
VoteCast(h, playerId, column) ==
  /\ ServerExploring
  /\ handlers[h].pc = "idle"
  /\ playerId \in DOMAIN players => players[playerId].connected
  /\ roomState = "active"
  /\ castVote(playerId, column)
  /\ ret' = [op |-> "castVote"] @@ castVoteResult(playerId, column)
  /\ handlers' = [handlers EXCEPT ![h].pc = IF ret'.success THEN "getRoom" ELSE "idle"]
  /\ UNCHANGED <<roomState, passwordHash, ptc>>

\* room:vote, RoomService.getRoom: the handler's copy of the room
VoteGetRoom(h) ==
  /\ ServerExploring
  /\ handlers[h].pc = "getRoom"
  /\ handlers' = [handlers EXCEPT ![h] = [pc |-> "tally", room |-> roomState]]
  /\ UNCHANGED <<gameVars, players, clockVars, tmVars, ret, obsVars, roomState, passwordHash, ptc>>

\* room:vote: the live counts, then updateRoomState with the copy
VoteTally(h) ==
  /\ ServerExploring
  /\ handlers[h].pc = "tally"
  /\ perColumnCounts' = getTeamVoteCounts(currentTeam)
  /\ roomState' = handlers[h].room
  /\ passwordHash' = sanitizeRoomForClient(passwordHash)
  /\ handlers' = [handlers EXCEPT ![h].pc = "check"]
  /\ UNCHANGED <<board, currentTeam, round, votes, endsAt, lastMove, result,
                 players, clockVars, tmVars, ret, obsVars, ptc>>

\* room:vote: early resolution when the whole team has voted
VoteCheck(h) ==
  /\ ServerExploring
  /\ handlers[h].pc = "check"
  /\ handlers' = [handlers EXCEPT ![h] = IdleHandler]
  /\ IF hasAllTeamVoted
     THEN /\ turnCompletionStart(timeouts, currentTimeout)
          /\ UNCHANGED <<cbCalls, fired, roomState, passwordHash>>
     ELSE UNCHANGED <<gameVars, players, clockVars, tmVars, ret, obsVars, roomState, passwordHash, ptc>>

\* processTurnCompletion after getRoom: the room is marked ended, or the
\* callback is registered again and the next window opened
TurnContinue(i) ==
  /\ ServerExploring
  /\ ptc' = SubSeq(ptc, 1, i - 1) \o SubSeq(ptc, i + 1, Len(ptc))
  /\ IF ptc[i] = "ended"
     THEN /\ roomState' = "ended"
          /\ passwordHash' = sanitizeRoomForClient(passwordHash)
          /\ UNCHANGED <<gameVars, players, clockVars, tmVars, obsVars>>
     ELSE /\ windowsOpened < MaxWindows
          /\ completionCallback' = "server"
          /\ startVoting(RoomTimerSec)
          /\ UNCHANGED <<roomState, passwordHash>>
  /\ UNCHANGED <<ret, handlers>>

\* the system clock moves on: up to the horizon of the exploration, and
\* past it as far as a pending deadline
AdvanceClock(ms) ==
  /\ ServerExploring
  /\ \/ currentTime + ms <= MaxTicks * MsPerSec
     \/ \E i \in DOMAIN timeouts : timeouts[i].triggerTime >= currentTime + ms
  /\ currentTime' = currentTime + ms
  /\ UNCHANGED <<gameVars, players, timeouts, nextTimeoutId, tmVars, ret, obsVars,
                 serverVars>>

\* a deadline timer whose time has come runs its callback, which calls the
\* registered completion callback
TimerFire(i) ==
  /\ ServerExploring
  /\ timeouts[i].triggerTime <= currentTime
  /\ LET left == SubSeq(timeouts, 1, i - 1) \o SubSeq(timeouts, i + 1, Len(timeouts))
     IN IF CallbackSet
        THEN /\ cbCalls' = cbCalls + 1
             /\ fired' = firedAfter(<<timeouts[i]>>, fired, currentTimeout)
             /\ turnCompletionStart(left, Undefined)
             /\ UNCHANGED <<roomState, passwordHash, handlers>>
        ELSE /\ timeouts' = left
             /\ currentTimeout' = Undefined
             /\ UNCHANGED <<gameVars, players, currentTime, nextTimeoutId,
                            completionCallback, ret, obsVars, serverVars>>

\* disconnect, RoomService.leaveRoom: the player is marked disconnected and
\* a leaving admin's role is also given to the next connected player
nextAdmin(playerId) ==
  LET others == {p \in DOMAIN players : p # playerId /\ players[p].connected}
  IN IF ~players[playerId].isAdmin \/ others = {} THEN {}
     ELSE {CHOOSE p \in others : \A q \in others : joinOrder(p) <= joinOrder(q)}

Disconnect(playerId) ==
  /\ ServerExploring
  /\ players[playerId].connected
  /\ players' = [p \in DOMAIN players |->
                   IF p = playerId THEN [players[p] EXCEPT !.connected = FALSE]
                   ELSE IF p \in nextAdmin(playerId) THEN [players[p] EXCEPT !.isAdmin = TRUE]
                   ELSE players[p]]
  /\ UNCHANGED <<gameVars, clockVars, tmVars, ret, obsVars, serverVars>>

ServerNext ==
  \/ RoomStart
  \/ RoomStartVoting
  \/ \E h \in VoteHandlers, playerId \in CallerIds, column \in ServerVoteColumns :
       VoteCast(h, playerId, column)
  \/ \E h \in VoteHandlers : VoteGetRoom(h)
  \/ \E h \in VoteHandlers : VoteTally(h)
  \/ \E h \in VoteHandlers : VoteCheck(h)
  \/ \E i \in DOMAIN ptc : TurnContinue(i)
  \/ \E ms \in TickAmounts : AdvanceClock(ms)
  \/ \E i \in DOMAIN timeouts : TimerFire(i)
  \/ \E playerId \in PlayerIds : Disconnect(playerId)

SpecServer == ServerInit /\ [][ServerNext]_vars

\* the event loop runs what is runnable: the clock advances, a due timer
\* fires, and a handler or continuation suspended at an await resumes
ServerFairness ==
  /\ WF_vars(\E ms \in TickAmounts : AdvanceClock(ms))
  /\ WF_vars(\E i \in DOMAIN timeouts : TimerFire(i))
  /\ WF_vars(\E i \in DOMAIN ptc : TurnContinue(i))
  /\ WF_vars(RoomStartVoting)

\* the progress of a window is followed with one room:vote handler in
\* flight at a time; the timer, the continuation and every leaver stay
LiveVoteHandlers == {"v1"}

ServerLiveNext ==
  \/ RoomStart
  \/ RoomStartVoting
  \/ \E h \in LiveVoteHandlers, playerId \in CallerIds, column \in ServerVoteColumns :
       VoteCast(h, playerId, column)
  \/ \E h \in LiveVoteHandlers : VoteGetRoom(h)
  \/ \E h \in LiveVoteHandlers : VoteTally(h)
  \/ \E h \in LiveVoteHandlers : VoteCheck(h)
  \/ \E i \in DOMAIN ptc : TurnContinue(i)
  \/ \E ms \in TickAmounts : AdvanceClock(ms)
  \/ \E i \in DOMAIN timeouts : TimerFire(i)
  \/ \E playerId \in PlayerIds : Disconnect(playerId)

SpecServerLive == ServerInit /\ [][ServerLiveNext]_vars /\ ServerFairness

----------------------------------------------------------------------------
\* The server in the seventh round of a game that can end with the next
\* move, and room:rematch once it has ended

\* three resolutions each: red in column 3, yellow in column 0
SeventhRoundBoard ==
  [r \in Rows |-> [c \in Cols |->
     IF r < NumRows - (WinLength - 1) THEN Empty
     ELSE IF c = 3 THEN "red" ELSE IF c = 0 THEN "yellow" ELSE Empty]]

SeventhRound == 2 * (WinLength - 1) + 1

\* matching votes the players have collected in their three rounds
SeventhRoundMatching(p) == CASE p = "p1" -> 3 [] p = "p2" -> 2 [] OTHER -> 1

\* the room when processTurnCompletion has opened the window of round 7
RematchInit ==
  /\ board = SeventhRoundBoard
  /\ currentTeam = "red"
  /\ round = SeventhRound
  /\ lastMove = Some([col |-> 0, row |-> NumRows - (WinLength - 1), team |-> "yellow"])
  /\ votes = << >>
  /\ perColumnCounts = [c \in Cols |-> 0]
  /\ endsAt = Some(deadlineOf(0, RoomTimerSec))
  /\ result = Undefined
  /\ players = [p \in PlayerIds |->
                  [InitPlayers[p] EXCEPT !.matchingVotes = SeventhRoundMatching(p)]]
  /\ currentTime = 0
  /\ timeouts = <<[id |-> SeventhRound, triggerTime |-> RoomTimerSec * MsPerSec, win |-> 1]>>
  /\ nextTimeoutId = SeventhRound + 1
  /\ currentTimeout = Some(SeventhRound)
  /\ completionCallback = "server"
  /\ ret = [op |-> "finishVoting", moveApplied |-> TRUE, gameEnded |-> FALSE,
            chosenColumn |-> Some(0), error |-> Undefined]
  /\ windowsOpened = 1
  /\ movesApplied = 0
  /\ cbCalls = 0
  /\ finished = FALSE
  /\ fired = {}
  /\ roomState = "active"
  /\ passwordHash = Undefined
  /\ handlers = [h \in HandlerIds |->
                   IF h = "start" THEN [pc |-> "done", room |-> "none"] ELSE IdleHandler]
  /\ ptc = << >>

\* RoomService.startRematch: the error thrown, "" when it goes through
startRematchError(adminPlayerId) ==
  IF adminPlayerId \notin DOMAIN players \/ ~players[adminPlayerId].isAdmin
    THEN "UNAUTHORIZED"
  ELSE IF roomState # "ended" THEN "INVALID_STATE"
  ELSE IF Cardinality(DOMAIN players) < 2 THEN "NOT_ENOUGH_PLAYERS"
  ELSE ""

\* variant: the players' counters are kept
rematchMatchingVotesKept(m) == m

\* room.players.forEach(p => p.matchingVotes = 0)
rematchMatchingVotes(m) == 0

\* room:rematch, RoomService.startRematch and the startGame it calls; the
\* handlers of the ended game have all returned
StartRematch(adminPlayerId) ==
  /\ ServerExploring
  /\ handlers["start"].pc = "done"
  /\ \A h \in VoteHandlers : handlers[h] = IdleHandler
  /\ ptc = << >>
  /\ adminPlayerId \in DOMAIN players => players[adminPlayerId].connected
  /\ ret' = [op |-> "startRematch", error |-> startRematchError(adminPlayerId)]
  /\ IF startRematchError(adminPlayerId) = ""
     THEN /\ board' = NewGame.board
          /\ currentTeam' = NewGame.currentTeam
          /\ round' = NewGame.round
          /\ lastMove' = NewGame.lastMove
          /\ votes' = << >>
          /\ perColumnCounts' = [c \in Cols |-> 0]
          /\ endsAt' = Undefined
          /\ result' = Undefined
          /\ players' = [p \in DOMAIN players |->
                           [players[p] EXCEPT !.matchingVotes = rematchMatchingVotes(@)]]
          /\ roomState' = "active"
          /\ handlers' = [handlers EXCEPT !["start"].pc = "voting"]
          /\ UNCHANGED passwordHash
     ELSE UNCHANGED <<gameVars, players, roomState, passwordHash, handlers>>
  /\ UNCHANGED <<clockVars, tmVars, obsVars, ptc>>

RematchNext ==
  \/ \E adminPlayerId \in CallerIds : StartRematch(adminPlayerId)
  \/ RoomStartVoting
  \/ \E h \in LiveVoteHandlers, playerId \in CallerIds, column \in ServerVoteColumns :
       VoteCast(h, playerId, column)
  \/ \E h \in LiveVoteHandlers : VoteGetRoom(h)
  \/ \E h \in LiveVoteHandlers : VoteTally(h)
  \/ \E h \in LiveVoteHandlers : VoteCheck(h)
  \/ \E i \in DOMAIN ptc : TurnContinue(i)
  \/ \E ms \in TickAmounts : AdvanceClock(ms)
  \/ \E i \in DOMAIN timeouts : TimerFire(i)
  \/ \E playerId \in PlayerIds : Disconnect(playerId)

SpecRematch == RematchInit /\ [][RematchNext]_vars

----------------------------------------------------------------------------
\* Properties of the TurnManager calls (under Spec)

VotingFrame == <<board, currentTeam, round, lastMove, result, players>>

\* C2: a finishVoting call made while no window is open (endsAt absent)
\* applies no move and leaves board, currentTeam, round, lastMove, result
\* and every player's matchingVotes unchanged.
C2_FinishWithoutWindowIsNoop ==
  [][(FinishVoting /\ ~IsSet(endsAt))
       => (~ret'.moveApplied /\ UNCHANGED VotingFrame)]_vars

\* C3: for one startVoting call with a callback registered, the callback
\* has been invoked exactly once as soon as the clock has reached the
\* deadline, however many ticks follow, and not at all before the deadline;
\* it is never invoked twice for one window.
C3_CallbackOncePerWindow ==
  /\ cbCalls <= 1
  /\ (windowsOpened > 0 /\ CallbackSet /\ IsSet(endsAt))
       => cbCalls = (IF currentTime >= Val(endsAt) THEN 1 ELSE 0)

\* a tick went by after the deadline's own tick
C3_Witness ==
  /\ CallbackSet /\ IsSet(endsAt)
  /\ currentTime > Val(endsAt)
  /\ cbCalls = 1

\* C4: at most one deadline timer is pending, it is the one the manager
\* holds, of the most recently opened window, which is still unresolved
\* with that deadline; and every timer callback that reached the
\* completion callback was of the then latest, unresolved window.
C4_OnlyLatestDeadlineFires ==
  /\ Len(timeouts) <= 1
  /\ \A i \in DOMAIN timeouts :
       /\ currentTimeout = Some(timeouts[i].id)
       /\ timeouts[i].win = windowsOpened
       /\ endsAt = Some(timeouts[i].triggerTime)
  /\ \A f \in fired : f.win = f.latest /\ f.current /\ f.open

\* the deadline of a second window fired, after the first was superseded
\* or cancelled
C4_Witness == \E f \in fired : f.win >= 2

\* C5: after finishVoting and until the next startVoting every castVote is
\* rejected with 'Voting window is closed' and records nothing.
C5_ClosedWindowRejectsVotes ==
  [][\A p \in CallerIds, c \in VoteColumns :
       (CastVote(p, c) /\ finished)
         => /\ ret' = [op |-> "castVote", success |-> FALSE,
                       error |-> "Voting window is closed"]
            /\ votes' = votes]_vars

C5_Witness ==
  /\ finished /\ movesApplied > 0
  /\ ret.op = "castVote" /\ ret.error = "Voting window is closed"
  /\ votes = << >>

\* C6: a castVote that returns success = FALSE changes nothing of the game
\* state or the players.
C6_FailedVoteChangesNothing ==
  [][\A p \in CallerIds, c \in VoteColumns :
       (CastVote(p, c) /\ ~ret'.success)
         => UNCHANGED <<gameVars, players, clockVars, tmVars>>]_vars

\* a vote of the team that is not to move was rejected while votes of the
\* active team were recorded
C6_Witness ==
  /\ ret.op = "castVote" /\ ret.error = "Not your team's turn"
  /\ votes # << >>

\* the five rejection conditions of castVote, in their specified order
VoteConditions(p, c) ==
  << ~IsSet(endsAt),
     p \notin PlayerIds,
     p \in PlayerIds /\ players[p].team # currentTeam,
     c \notin Cols,
     c \in Cols /\ board[0][c] # Empty >>

VoteErrors ==
  << "Voting window is closed", "Player not found", "Not your team's turn",
     "Invalid column", "Column is full" >>

FirstApplicable(conds) ==
  LET hold == {i \in DOMAIN conds : conds[i]}
  IN IF hold = {} THEN 0 ELSE CHOOSE i \in hold : \A j \in hold : i <= j

\* C7: castVote fails with the first applicable of the five errors, in the
\* fixed order, and succeeds exactly when none of the conditions holds.
C7_FirstApplicableError ==
  [][\A p \in CallerIds, c \in VoteColumns :
       CastVote(p, c)
         => LET k == FirstApplicable(VoteConditions(p, c))
            IN /\ ret'.success = (k = 0)
               /\ k # 0 => ret'.error = VoteErrors[k]]_vars

C7_Witness == ret.op = "castVote" /\ ret.error = "Column is full"

\* C8: a successful castVote(p, c) sets votes[p] to c, keeps every other
\* player's vote and changes nothing else: no resolution, no timer change.
C8_SuccessfulVoteOnlyRecords ==
  [][\A p \in CallerIds, c \in VoteColumns :
       (CastVote(p, c) /\ ret'.success)
         => /\ DOMAIN votes' = (DOMAIN votes) \cup {p}
            /\ votes'[p] = c
            /\ \A q \in (DOMAIN votes) \ {p} : votes'[q] = votes[q]
            /\ UNCHANGED <<board, currentTeam, round, perColumnCounts, endsAt,
                           lastMove, result, players, clockVars, tmVars,
                           movesApplied, finished>>]_vars

\* two players of the active team hold different votes after an accepted vote
C8_Witness ==
  /\ ret.op = "castVote" /\ ret.success
  /\ Cardinality(DOMAIN votes) = 2
  /\ \E p, q \in DOMAIN votes : votes[p] # votes[q]

\* C9: startVoting at clock time T with timer S sets endsAt to T + 1000 * S
\* and leaves exactly one timer scheduled, firing at T + 1000 * S.
C9_DeadlineExact ==
  [][\A timerSec \in TimerSecs :
       StartVoting(timerSec)
         => /\ endsAt' = Some(currentTime + 1000 * timerSec)
            /\ Len(timeouts') = 1
            /\ timeouts'[1].triggerTime = currentTime + 1000 * timerSec]_vars

\* a window opened at a clock time other than 0, over an earlier window
C9_Witness ==
  /\ ret.op = "startVoting" /\ windowsOpened = 2
  /\ currentTime = 1000 /\ endsAt = Some(3000)
  /\ Len(timeouts) = 1

\* a line of four cells of the team on board b, in any of the four directions
HasFour(b, team) ==
  \E c \in Cols, r \in Rows, d \in {<<1, 0>>, <<0, 1>>, <<1, 1>>, <<1, -1>>} :
    \A k \in 0 .. 3 :
      /\ InBounds(c + k * d[1], r + k * d[2])
      /\ b[r + k * d[2]][c + k * d[1]] = team

PieceCount(b) == Cardinality({<<r, c>> \in Rows \X Cols : b[r][c] # Empty})

\* C10: a finishVoting whose move neither completes four in a line nor
\* fills the board places one piece of the active team at the lowest empty
\* row of the chosen column, sets lastMove to it, switches the team, adds 1
\* to round, empties votes, removes endsAt and returns moveApplied = TRUE,
\* gameEnded = FALSE and the column played.
C10_OrdinaryMove ==
  [][(FinishVoting /\ board' # board
        /\ ~HasFour(board', currentTeam) /\ PieceCount(board') < NumRows * NumCols)
       => \E c \in Cols, r \in Rows :
            /\ board[r][c] = Empty
            /\ \A q \in Rows : q > r => board[q][c] # Empty
            /\ board' = [board EXCEPT ![r][c] = currentTeam]
            /\ lastMove' = Some([col |-> c, row |-> r, team |-> currentTeam])
            /\ currentTeam' # currentTeam /\ currentTeam' \in Teams
            /\ round' = round + 1
            /\ votes' = << >>
            /\ endsAt' = Undefined
            /\ ret' = [op |-> "finishVoting", moveApplied |-> TRUE, gameEnded |-> FALSE,
                       chosenColumn |-> Some(c), error |-> Undefined]]_vars

\* both red players voted column 3 on the empty board and the move was
\* applied: the piece lies at row 5 of column 3 and yellow is to move
C10_Witness ==
  /\ ret.op = "finishVoting" /\ ret.moveApplied /\ ~ret.gameEnded
  /\ board = [EmptyBoard EXCEPT ![5][3] = "red"]
  /\ players["p1"].matchingVotes = 1 /\ players["p3"].matchingVotes = 1
  /\ currentTeam = "yellow" /\ round = 2

----------------------------------------------------------------------------
\* Properties of the running server (under SpecServer)

\* C1: with room:vote handlers, the timer callback and processTurnCompletion
\* interleaved at their awaits, every voting window is resolved at most
\* once: the moves applied never outnumber the windows startVoting opened.
C1_MovesBoundedByWindows == movesApplied <= windowsOpened

----------------------------------------------------------------------------
\* Properties of a resolution (under Spec and SpecEndgame)

\* the columns whose top cell is empty
PlayableColumns == {c \in Cols : board[0][c] = Empty}

\* votes recorded for column k
VotesFor(k) == Cardinality({p \in DOMAIN votes : votes[p] = k})

\* C11: the column finishVoting plays is playable; when votes were recorded
\* no playable column has more votes than it; without votes it is some
\* playable column, and a move is made whenever a column is playable.
C11_PlayedColumnHasMostVotes ==
  [][(FinishVoting /\ PlayableColumns # {})
       => /\ ret'.moveApplied
          /\ LET c == Val(ret'.chosenColumn)
             IN /\ c \in PlayableColumns
                /\ Val(lastMove').col = c
                /\ board'[Val(lastMove').row][c] = currentTeam
                /\ \A k \in PlayableColumns : VotesFor(k) <= VotesFor(c)]_vars

\* red's two votes for column 3 were tallied and column 3 was played
C11_Witness ==
  /\ ret.op = "finishVoting" /\ ret.moveApplied
  /\ ret.chosenColumn = Some(3)
  /\ perColumnCounts[3] = 2

\* four cells of the team in a line that contains the cell (col, row)
HasFourThrough(b, col, row, team) ==
  \E d \in {<<1, 0>>, <<0, 1>>, <<1, 1>>, <<1, -1>>}, k \in 0 .. 3 :
    \A j \in 0 .. 3 :
      /\ InBounds(col + (j - k) * d[1], row + (j - k) * d[2])
      /\ b[row + (j - k) * d[2]][col + (j - k) * d[1]] = team

HasWinner(res) == IsSet(res) /\ "winner" \in DOMAIN Val(res)
HasDraw(res) == IsSet(res) /\ "draw" \in DOMAIN Val(res) /\ Val(res).draw

\* a winningLine: four distinct cells of the board held by the team, in
\* steps of one direction
IsLineOfFour(b, line, team) ==
  /\ Len(line) = 4
  /\ \A i \in 1 .. 4 : InBounds(line[i].col, line[i].row) /\ b[line[i].row][line[i].col] = team
  /\ \E d \in {<<1, 0>>, <<0, 1>>, <<1, 1>>, <<1, -1>>} :
       \A i \in 1 .. 3 : /\ line[i + 1].col = line[i].col + d[1]
                         /\ line[i + 1].row = line[i].row + d[2]

\* C12: when the applied move completes four of the active team through
\* the placed cell, result.winner is the team that moved, with a winningLine
\* of four of its cells, the call returns moveApplied and gameEnded, and
\* currentTeam is not switched; when it completes no such line the call
\* sets no winner.
C12_WinDetected ==
  [][(EndgameFinishVoting /\ ret'.moveApplied)
       => LET m == Val(lastMove')
          IN IF HasFourThrough(board', m.col, m.row, currentTeam)
             THEN /\ HasWinner(result')
                  /\ Val(result').winner = currentTeam
                  /\ IsLineOfFour(board', Val(result').winningLine, currentTeam)
                  /\ ret'.gameEnded
                  /\ currentTeam' = currentTeam
                  /\ m.team = currentTeam
             ELSE HasWinner(result') => result' = result]_vars

\* red completed the diagonal from column 3 at the top row, with a column
\* still playable
C12_Witness ==
  /\ ret.op = "finishVoting" /\ ret.gameEnded /\ ret.chosenColumn = Some(3)
  /\ HasWinner(result) /\ Val(result).winner = "red"
  /\ Val(result).winningLine[1] = [col |-> 3, row |-> 0]
  /\ Val(result).winningLine[4] = [col |-> 6, row |-> 3]
  /\ board[0][0] = Empty /\ currentTeam = "red"

\* C13: a move that fills the last empty cell ends the game: a draw without
\* winner when it completes no line of four, a win without draw when it
\* does; and no result carries both a winner and draw = TRUE.
C13_LastCellEndsGame ==
  /\ [](~(HasWinner(result) /\ HasDraw(result)))
  /\ [][(EndgameFinishVoting /\ ret'.moveApplied
           /\ PieceCount(board') = NumRows * NumCols)
          => /\ ret'.gameEnded
             /\ IF HasFourThrough(board', Val(lastMove').col, Val(lastMove').row,
                                  currentTeam)
                THEN HasWinner(result') /\ ~HasDraw(result')
                ELSE result' = Some([draw |-> TRUE])]_vars

\* yellow filled the last cell without a line: a draw
C13_Witness ==
  /\ ret.op = "finishVoting" /\ ret.moveApplied /\ ret.gameEnded
  /\ PieceCount(board) = NumRows * NumCols
  /\ lastMove = Some([col |-> 3, row |-> 0, team |-> "yellow"])
  /\ result = Some([draw |-> TRUE])

\* yellow filled the last cell and completed the top row: a win
C13_WinWitness ==
  /\ ret.op = "finishVoting" /\ ret.moveApplied /\ ret.gameEnded
  /\ PieceCount(board) = NumRows * NumCols
  /\ lastMove = Some([col |-> 3, row |-> 0, team |-> "yellow"])
  /\ HasWinner(result) /\ Val(result).winner = "yellow"

\* C14: finishVoting with no playable column sets the result to a draw and
\* returns moveApplied = FALSE, gameEnded = TRUE; board, currentTeam, round
\* and the players are unchanged and nothing is tallied.
C14_NoPlayableColumnIsDraw ==
  [][(EndgameFinishVoting /\ PlayableColumns = {})
       => /\ result' = Some([draw |-> TRUE])
          /\ ret'.moveApplied = FALSE /\ ret'.gameEnded = TRUE
          /\ UNCHANGED <<board, currentTeam, round, lastMove, players,
                         perColumnCounts, movesApplied>>]_vars

\* finishVoting was called on the full board
C14_Witness ==
  /\ PieceCount(board) = NumRows * NumCols /\ movesApplied = 2
  /\ ret.op = "finishVoting" /\ ~ret.moveApplied /\ ret.gameEnded
  /\ result = Some([draw |-> TRUE])

\* C15: a resolution adds 1 to matchingVotes of exactly the players of the
\* active team whose vote is the chosen column, 0 for the others, and
\* changes no other field of a player.
C15_MatchingVotesCredited ==
  [][FinishVoting
       => /\ DOMAIN players' = DOMAIN players
          /\ \A p \in DOMAIN players :
               players'[p] =
                 [players[p] EXCEPT !.matchingVotes =
                    @ + (IF /\ IsSet(ret'.chosenColumn)
                            /\ players[p].team = currentTeam
                            /\ p \in DOMAIN votes
                            /\ votes[p] = Val(ret'.chosenColumn)
                         THEN 1 ELSE 0)]]_vars

\* red's votes were split between columns 0 and 3; only the player who
\* voted for the played column was credited
C15_Witness ==
  /\ ret.op = "finishVoting" /\ ret.moveApplied
  /\ perColumnCounts[0] = 1 /\ perColumnCounts[3] = 1
  /\ \E p, q \in {"p1", "p3"} :
       players[p].matchingVotes = 1 /\ players[q].matchingVotes = 0
  /\ players["p2"].matchingVotes = 0

\* C16: votes are recorded only while a window is open: whenever endsAt is
\* absent the votes map is empty.
C16_VotesOnlyInOpenWindow == ~IsSet(endsAt) => votes = << >>

\* a window with recorded votes was resolved
C16_Witness ==
  /\ ~IsSet(endsAt) /\ votes = << >>
  /\ ret.op = "finishVoting" /\ \E c \in Cols : perColumnCounts[c] > 0

\* C17: once result is set it is never changed, and no later call changes
\* board, lastMove, currentTeam or round.
C17_ResultIsFinal ==
  [][IsSet(result) => UNCHANGED <<result, board, lastMove, currentTeam, round>>]_vars

----------------------------------------------------------------------------
\* Properties of GameEngine.applyMove (under SpecEngine)

DiffCells(b1, b2) == {<<r, c>> \in Rows \X Cols : b1[r][c] # b2[r][c]}
ColumnHeight(b, col) == Cardinality({r \in Rows : b[r][col] # Empty})

\* C19: for a column of 0..6 whose top cell is empty, applyMove returns a
\* board that differs from the argument in exactly one cell, the lowest
\* empty cell of the column, now holding the team, and returns its row; the
\* argument is not modified; the n-th piece of a column lands at row 6 - n.
C19_ApplyMoveGravity ==
  [][\A col \in Cols, team \in Teams :
       (ApplyMove(col, team) /\ board[0][col] = Empty)
         => /\ ret'.ok
            /\ ret'.row \in Rows
            /\ board[ret'.row][col] = Empty
            /\ \A q \in Rows : q > ret'.row => board[q][col] # Empty
            /\ DiffCells(board, ret'.board) = {<<ret'.row, col>>}
            /\ ret'.board[ret'.row][col] = team
            /\ ret'.row = NumRows - 1 - ColumnHeight(board, col)
            /\ board' = board]_vars

\* the third piece of column 0 was returned at row 3 and the argument
\* still has that cell empty
C19_Witness ==
  /\ ret.op = "applyMove" /\ ret.ok /\ ret.col = 0 /\ ret.row = 3
  /\ ret.board[3][0] = ret.team
  /\ board[3][0] = Empty /\ board[4][0] # Empty /\ board[5][0] # Empty

\* C20: applyMove succeeds exactly when isValidMove holds, that is for a
\* column of 0..6 whose top cell is empty; for any other column it fails and
\* the argument board is unchanged.
C20_ApplyMoveSucceedsIffValid ==
  [][\A col \in VoteColumns, team \in Teams :
       ApplyMove(col, team)
         => /\ ret'.ok = (col \in Cols /\ board[0][col] = Empty)
            /\ isValidMove(board, col) = (col \in Cols /\ board[0][col] = Empty)
            /\ ~ret'.ok => board' = board]_vars

\* a move into the full column 0 failed, as did one outside the range
C20_Witness ==
  /\ ret.op = "applyMove" /\ ~ret.ok
  /\ ret.col = 0 /\ ColumnHeight(board, 0) = NumRows

----------------------------------------------------------------------------
\* Progress of the running server (under SpecServerLive)

GameRunning == roomState = "active" /\ ~IsSet(result) /\ ServerExploring

----------------------------------------------------------------------------
\* Properties of GameEngine.checkWin (under SpecCheckWin)

\* the offsets k for which every cell from (col, row) to
\* (col + k dc, row + k dr) is on the board and holds team
RunOffsets(b, col, row, team, dc, dr) ==
  {k \in (1 - NumCols) .. (NumCols - 1) :
     \A j \in (IF k < 0 THEN k ELSE 0) .. (IF k < 0 THEN 0 ELSE k) :
       /\ <<col + j * dc, row + j * dr>> \in Cols \X Rows
       /\ b[row + j * dr][col + j * dc] = team}

\* the first four cells of the run, from its end with the lowest offset
FirstFour(b, col, row, team, dc, dr) ==
  LET ks == RunOffsets(b, col, row, team, dc, dr)
      lo == CHOOSE k \in ks : \A j \in ks : k <= j
  IN [i \in 1 .. WinLength |->
        [col |-> col + (lo + i - 1) * dc, row |-> row + (lo + i - 1) * dr]]

\* horizontal, vertical and the two diagonals, each in ascending column
\* order (ascending row order for the vertical)
Axes == {<<1, 0>>, <<0, 1>>, <<1, 1>>, <<1, -1>>}

WinningAxes(b, col, row, team) ==
  {a \in Axes : Cardinality(RunOffsets(b, col, row, team, a[1], a[2])) >= WinLength}

\* C21: for a last move whose cell holds its team, checkWin returns the
\* team as winner exactly when an axis through the cell has a run of at
\* least four cells of the team containing it, the winningLine is then
\* the first four cells of such a run in ascending column (vertical:
\* row) order, and otherwise neither winner nor line is returned.
C21_CheckWinExact ==
  ret.op = "checkWin" =>
    LET m == ret.move
        axes == WinningAxes(board, m.col, m.row, m.team)
    IN IF axes = {}
       THEN ~IsSet(ret.winner) /\ ~IsSet(ret.winningLine)
       ELSE /\ ret.winner = Some(m.team)
            /\ IsSet(ret.winningLine)
            /\ \E a \in axes :
                 Val(ret.winningLine) = FirstFour(board, m.col, m.row, m.team, a[1], a[2])

\* a run of five on a diagonal, checked from its last cell: the line
\* returned does not reach the cell of the move
C21_Witness ==
  /\ ret.op = "checkWin"
  /\ IsSet(ret.winner)
  /\ Cardinality(RunOffsets(board, ret.move.col, ret.move.row, ret.move.team, 1, -1)) > WinLength
  /\ Cardinality(RunOffsets(board, ret.move.col, ret.move.row, ret.move.team, 1, 0)) < WinLength
  /\ \A i \in 1 .. WinLength : Val(ret.winningLine)[i].col # ret.move.col

----------------------------------------------------------------------------
\* Properties of MajorityTurnDecider (under SpecDecider)

\* C22: tallyVotes returns seven counts; the count of a column of the
\* board that is in validColumns is the number of players whose vote is
\* that column, every other count is 0, and the counts sum to at most the
\* number of votes.
C22_TallyCountsValidVotes ==
  ret.op = "tallyVotes" =>
    /\ DOMAIN ret.counts = Cols
    /\ \A c \in Cols :
         ret.counts[c] = IF c \in ret.validCols
                         THEN Cardinality({p \in DOMAIN votes : votes[p] = c})
                         ELSE 0
    /\ sumCounts(ret.counts, Cols) <= Cardinality(DOMAIN votes)

\* one vote counted, one dropped for a column of the board that is not
\* valid, one dropped for a column above the range although listed valid
C22_Witness ==
  /\ ret.op = "tallyVotes"
  /\ \E p \in DOMAIN votes : votes[p] = 0 /\ ret.counts[0] = 1
  /\ \E p \in DOMAIN votes : votes[p] = 3 /\ 3 \notin ret.validCols
  /\ \E p \in DOMAIN votes : votes[p] = NumCols /\ NumCols \in ret.validCols

\* the count of a column, 0 where the counts array has no entry
CountOf(K, c) == IF c \in DOMAIN K THEN K[c] ELSE 0

\* the members of validCols with the highest count
TiedColumns(K, validCols) ==
  {c \in validCols : \A d \in validCols : CountOf(K, d) <= CountOf(K, c)}

C23_NonEmptyValidColumns ==
  (ret.op = "decideColumn" /\ ret.validCols # {}) =>
    ret.column \in TiedColumns(perColumnCounts, ret.validCols)

----------------------------------------------------------------------------
\* Properties of the early resolution (under SpecServer)

\* the connected players of the team to move
ActiveTeamPlayers ==
  {p \in DOMAIN players : players[p].connected /\ players[p].team = currentTeam}

\* C25: hasAllTeamVoted, as room:vote evaluates it before the early
\* resolution, is true exactly when every connected player of currentTeam
\* has an entry in votes, whatever the disconnected and the other team's
\* players voted, and is true when the team has no connected player: the
\* handler resolves the window exactly in that case.
C25_AllTeamVotedExact ==
  /\ [](hasAllTeamVoted <=> (ActiveTeamPlayers \subseteq DOMAIN votes))
  /\ [][\A h \in VoteHandlers :
          (handlers[h].pc = "check" /\ handlers'[h].pc = "idle")
            => ((movesApplied' = movesApplied + 1)
                  <=> (ActiveTeamPlayers \subseteq DOMAIN votes))]_vars

\* a handler resolved for a team whose only player had disconnected, after
\* the timer had resolved the window the vote was cast in
C25_Witness ==
  /\ movesApplied > windowsOpened
  /\ ret.op = "finishVoting"
  /\ \A p \in DOMAIN players : players[p].team = nextTeam(currentTeam) => ~players[p].connected
  /\ \E p \in DOMAIN players : players[p].team = nextTeam(currentTeam)

----------------------------------------------------------------------------
\* Properties of the round counter (under SpecEndgame)

\* C26, as stated: round increases by exactly 1 at every finishVoting call
\* that applies a move, and changes at no other operation.
C26_RoundCountsEveryMove ==
  [][IF EndgameFinishVoting /\ ret'.moveApplied
     THEN round' = round + 1
     ELSE round' = round]_vars

\* C26, amended: round increases by exactly 1 at every finishVoting call
\* that applies a move after which the game continues; a call whose move
\* ends the game (win or draw), a call that applies no move and every
\* other operation leave it unchanged, so it never decreases.
C26_RoundCountsContinuedMoves ==
  [][IF EndgameFinishVoting /\ ret'.moveApplied /\ ~ret'.gameEnded
     THEN round' = round + 1
     ELSE round' = round]_vars

\* the forty-first move was an ordinary one and was counted
C26_Witness ==
  /\ ret.op = "finishVoting" /\ ret.moveApplied /\ ~ret.gameEnded
  /\ ~IsSet(result)
  /\ PieceCount(board) = NumRows * NumCols - 1
  /\ round = NumRows * NumCols

----------------------------------------------------------------------------
\* Properties of room:rematch (under SpecRematch)

\* C27: a rematch that is accepted finds the room in state 'ended' and
\* leaves a fresh game (empty board, round 1, red to move, no votes, no
\* deadline, no result), every player's matchingVotes at 0 and the same
\* players with the same teams; a rematch that is rejected changes
\* nothing.
C27_RematchStartsFreshGame ==
  [][\A adminPlayerId \in CallerIds :
       StartRematch(adminPlayerId) =>
         IF ret'.error = ""
         THEN /\ roomState = "ended"
              /\ board' = EmptyBoard /\ round' = 1 /\ currentTeam' = "red"
              /\ votes' = << >> /\ ~IsSet(endsAt') /\ ~IsSet(result')
              /\ ~IsSet(lastMove')
              /\ DOMAIN players' = DOMAIN players
              /\ \A p \in DOMAIN players :
                   /\ players'[p].matchingVotes = 0
                   /\ players'[p].team = players[p].team
                   /\ players'[p].connected = players[p].connected
                   /\ players'[p].isAdmin = players[p].isAdmin
         ELSE UNCHANGED <<gameVars, players, roomState>>]_vars

\* the rematch of a game red has won, with a player who left still on the
\* roster, and the first window of the new game open
C27_Witness ==
  /\ roomState = "active"
  /\ board = EmptyBoard /\ round = 1
  /\ IsSet(endsAt)
  /\ windowsOpened = 2
  /\ \A p \in DOMAIN players : players[p].matchingVotes = 0
  /\ \E p \in DOMAIN players : ~players[p].connected

----------------------------------------------------------------------------
\* Properties of the deadline timer and of the window (under Spec)

\* C28: a tick that fires the deadline timer invokes the registered
\* completion callback once per due timer and nothing else: board,
\* currentTeam, round, votes, endsAt, result, lastMove and every player
\* stay as they are and no move is applied; without a registered callback
\* nothing is invoked either.
C28_TimerFiringResolvesNothing ==
  [][\A ms \in TickAmounts :
       Tick(ms) =>
         /\ UNCHANGED <<board, currentTeam, round, votes, endsAt, result, lastMove, players>>
         /\ movesApplied' = movesApplied
         /\ cbCalls' = cbCalls + (IF completionCallback # "none"
                                  THEN Len(tickDue(timeouts, currentTime + ms))
                                  ELSE 0)]_vars

\* the timer of a window with a vote fired into the callback: the window
\* is still open with its vote, and no finishVoting has run
C28_Witness ==
  /\ ret.op = "tick"
  /\ cbCalls = 1
  /\ IsSet(endsAt) /\ currentTime >= Val(endsAt)
  /\ votes # << >>
  /\ ~finished /\ movesApplied = 0

\* the same without a registered callback
C28_NoCallbackWitness ==
  /\ ret.op = "tick"
  /\ completionCallback = "none"
  /\ IsSet(endsAt) /\ currentTime >= Val(endsAt)
  /\ currentTimeout = Undefined /\ timeouts = << >>
  /\ ~finished

\* C29: whenever startVoting opens a window, the votes map is empty, so
\* no vote cast during an earlier window is tallied in a later one.
C29_WindowOpensWithoutVotes ==
  [][windowsOpened' = windowsOpened + 1 => votes = << >>]_vars

----------------------------------------------------------------------------
\* Properties of the move application in finishVoting (under SpecEndgame)

\* C30: no finishVoting call returns the error result (moveApplied and
\* gameEnded both false): whenever a column is playable, the column the
\* decider returns is playable and applyMove places the piece.
C30_MoveApplicationNeverFails ==
  /\ [](ret.op = "finishVoting" =>
          (~IsSet(ret.error) /\ (ret.moveApplied \/ ret.gameEnded)))
  /\ [][(EndgameFinishVoting /\ PlayableColumns # {})
          => /\ ret'.moveApplied
             /\ Val(ret'.chosenColumn) \in PlayableColumns
             /\ PieceCount(board') = PieceCount(board) + 1]_vars

\* with column 3 the only playable one and no vote, the piece went there
C30_Witness ==
  /\ ret.op = "finishVoting" /\ ret.moveApplied
  /\ ret.chosenColumn = Some(3)
  /\ PieceCount(board) = NumRows * NumCols
  /\ \A c \in Cols : perColumnCounts[c] = 0

----------------------------------------------------------------------------
\* Invariants of the votes map (under Spec)

\* C31: every key of votes is the id of a roster player whose team is
\* currentTeam: no vote of the other team is recorded, and none is left
\* over when the team to move changes.
C31_VotesOfTeamToMove ==
  \A p \in DOMAIN votes : p \in DOMAIN players /\ players[p].team = currentTeam

\* after red's move the team to move is yellow, and yellow's player has
\* voted in the next window
C31_Witness ==
  /\ movesApplied = 1
  /\ currentTeam = "yellow"
  /\ DOMAIN votes = {"p2"}
  /\ players["p1"].matchingVotes = 1

\* C32: no accepted vote is lost at resolution: a finishVoting call that
\* tallies stores, for each column, the number of players whose recorded
\* vote is that column, so the stored perColumnCounts sum to the number of
\* players with a recorded vote.
C32_NoVoteLostAtResolution ==
  [][(movesApplied' = movesApplied + 1) =>
       /\ \A c \in Cols : perColumnCounts'[c] = VotesFor(c)
       /\ sumCounts(perColumnCounts', Cols) = Cardinality(DOMAIN votes)]_vars

\* a resolution that tallied two votes for different columns
C32_Witness ==
  /\ ret.op = "finishVoting" /\ ret.moveApplied
  /\ sumCounts(perColumnCounts, Cols) = 2
  /\ \E c \in Cols : perColumnCounts[c] = 1

----------------------------------------------------------------------------
\* Boards built by applyMove (under SpecEngine)

\* in each column no empty cell lies below an occupied one
Gravity(b) ==
  \A col \in Cols, r \in Rows, q \in Rows :
    (q > r /\ b[r][col] # Empty) => b[q][col] # Empty

HasEmptyCell(b, col) == \E r \in Rows : b[r][col] = Empty

\* C33: every board built from the empty board by applyMove satisfies
\* gravity; on such boards isValidMove(c) holds exactly when column c has an
\* empty cell, and applyMove fails only where isValidMove fails (its second
\* 'Column is full' after a successful validity check does not occur).
C33_ReachableBoardsObeyGravity ==
  /\ Gravity(board)
  /\ \A c \in Cols : isValidMove(board, c) <=> HasEmptyCell(board, c)
  /\ ret.op = "applyMove" =>
       /\ Gravity(ret.board)
       /\ ~ret.ok => ~(ret.col \in Cols /\ HasEmptyCell(board, ret.col))

\* column 0 was filled piece by piece and a further move into it failed,
\* while column 3 holds a shorter stack
C33_Witness ==
  /\ ret.op = "applyMove" /\ ~ret.ok /\ ret.col = 0
  /\ ColumnHeight(board, 0) = NumRows
  /\ ColumnHeight(board, 3) = 1

----------------------------------------------------------------------------
\* Invariants of a game without result

PiecesOf(b, team) == Cardinality({<<r, c>> \in Rows \X Cols : b[r][c] = team})

\* C34: while a game has no result, round is the number of pieces on the
\* board plus 1, red is to move exactly when round is odd, and red has as
\* many pieces as yellow or one more.
C34_RoundTeamAndPiecesAgree ==
  ~IsSet(result) =>
    /\ round = PieceCount(board) + 1
    /\ (currentTeam = "red") <=> (round % 2 = 1)
    /\ PiecesOf(board, "red") - PiecesOf(board, "yellow") \in {0, 1}

\* two moves were resolved: red and yellow have one piece each and red is
\* to move in round 3
C34_Witness ==
  /\ ~IsSet(result) /\ roomState = "active"
  /\ movesApplied = 2 /\ round = 3 /\ currentTeam = "red"
  /\ PiecesOf(board, "red") = 1 /\ PiecesOf(board, "yellow") = 1

\* one move was resolved: yellow is to move in round 2
C34_YellowWitness ==
  /\ ~IsSet(result) /\ round = 2 /\ currentTeam = "yellow"
  /\ PiecesOf(board, "red") = 1 /\ PiecesOf(board, "yellow") = 0

\* C35: while a game has no result at least one column is playable; so a
\* finishVoting call that finds no playable column (and reports a draw
\* without a move) is always a call on a game that already has a result.
C35_NoResultMeansPlayable ==
  /\ [](~IsSet(result) => PlayableColumns # {})
  /\ [][(EndgameFinishVoting /\ ~ret'.moveApplied /\ ret'.gameEnded)
         => (IsSet(result) /\ PlayableColumns = {})]_vars

\* finishVoting was called on the full board of a drawn game: it found no
\* playable column and the game had its result already
C35_Witness ==
  /\ HasDraw(result) /\ PlayableColumns = {} /\ ~IsSet(endsAt)
  /\ ret.op = "finishVoting" /\ ~ret.moveApplied /\ ret.gameEnded

\* a game without result whose last free cell is about to be played
C35_LastCellWitness ==
  /\ ~IsSet(result) /\ PieceCount(board) = NumRows * NumCols - 1
  /\ Cardinality(PlayableColumns) = 1

----------------------------------------------------------------------------
\* A game with a long run at hand (SpecLongRun): the TurnManager calls of
\* Spec on a board where one move of red joins five in the bottom row

MaxRunMoves == 2

\* eight pieces played in turn, no line of four; red holds columns 0, 1, 2
\* and 4 of the bottom row and is to move: red in column 3 joins five
LongRunBoard ==
  BoardFromRows(<< <<Em, Em, Em, Em, Em, Em, Em>>,
                   <<Em, Em, Em, Em, Em, Em, Em>>,
                   <<Em, Em, Em, Em, Em, Em, Em>>,
                   <<Em, Em, Em, Em, Em, Em, Em>>,
                   <<Yl, Yl, Yl, Em, Yl, Em, Em>>,
                   <<Rd, Rd, Rd, Em, Rd, Em, Em>> >>)

LongRunGame ==
  [board |-> LongRunBoard, currentTeam |-> "red", round |-> 9,
   lastMove |-> Some([col |-> 4, row |-> NumRows - 2, team |-> "yellow"])]

LongRunInit == InitOf({LongRunGame})

\* finishVoting as often as it is called, up to MaxRunMoves moves
LongRunFinishVoting ==
  /\ movesApplied < MaxRunMoves
  /\ finishVoting
  /\ UNCHANGED serverVars

LongRunNext ==
  \/ SetCompletionCallback
  \/ \E timerSec \in TimerSecs : StartVoting(timerSec)
  \/ \E playerId \in CallerIds, column \in VoteColumns : CastVote(playerId, column)
  \/ LongRunFinishVoting
  \/ \E ms \in TickAmounts : Tick(ms)

SpecLongRun == LongRunInit /\ [][LongRunNext]_vars

\* the cells of a line as a set
LineCells(line) == {<<line[i].col, line[i].row>> : i \in 1 .. Len(line)}

\* C36: a reported winningLine consists of 4 distinct adjacent collinear
\* cells that hold the winner's marker on the board, and it contains the
\* cell of lastMove, also when the winning run is longer than 4.
C36_WinningLineContainsLastMove ==
  HasWinner(result) =>
    /\ IsLineOfFour(board, Val(result).winningLine, Val(result).winner)
    /\ Cardinality(LineCells(Val(result).winningLine)) = 4
    /\ IsSet(lastMove)
    /\ <<Val(lastMove).col, Val(lastMove).row>> \in LineCells(Val(result).winningLine)

\* the same for the move that ends a game: a finishVoting call on a game
\* without result that reports a winner
C36_FirstWinningLineContainsLastMove ==
  [][(~IsSet(result) /\ HasWinner(result')) =>
       /\ IsLineOfFour(board', Val(result').winningLine, Val(result').winner)
       /\ Cardinality(LineCells(Val(result').winningLine)) = 4
       /\ <<Val(lastMove').col, Val(lastMove').row>>
            \in LineCells(Val(result').winningLine)]_vars

\* the lines reported on the board always hold the winner's marker
C36_WinningLineIsLineOfFour ==
  HasWinner(result) =>
    /\ IsLineOfFour(board, Val(result).winningLine, Val(result).winner)
    /\ Cardinality(LineCells(Val(result).winningLine)) = 4

\* red's move into column 3 joined five in the bottom row and the reported
\* line is columns 0 to 3
C36_LongRunWitness ==
  /\ HasWinner(result) /\ movesApplied = 1
  /\ Val(lastMove).col = 3 /\ Val(lastMove).row = NumRows - 1
  /\ \A c \in 0 .. 4 : board[NumRows - 1][c] = "red"
  /\ LineCells(Val(result).winningLine) = {<<c, NumRows - 1>> : c \in 0 .. 3}

\* finishVoting was called again after the win: red's next piece in column 5
\* is reported as a winning move with the line of columns 0 to 3
C36_SixthCellState ==
  /\ HasWinner(result) /\ movesApplied = 2 /\ ret.op = "finishVoting" /\ ret.gameEnded
  /\ Val(lastMove).col = 5 /\ Val(lastMove).row = NumRows - 1
  /\ LineCells(Val(result).winningLine) = {<<c, NumRows - 1>> : c \in 0 .. 3}

----------------------------------------------------------------------------
\* Votes and the deadline (under Spec)

\* the deadline of the open window is reached: the FakeClock has run its
\* timer
DeadlineReached == IsSet(endsAt) /\ currentTime >= Val(endsAt)

C37_LateVoteState ==
  /\ ret.op = "castVote" /\ ret.success
  /\ IsSet(endsAt) /\ currentTime > Val(endsAt)
  /\ timeouts = << >> /\ currentTimeout = Undefined
  /\ completionCallback = "none"
  /\ votes # << >>

\* votes are rejected as closed whenever no deadline is set
C37_NoDeadlineNoVote ==
  [][\A p \in CallerIds, c \in VoteColumns :
       (CastVote(p, c) /\ ~IsSet(endsAt))
         => /\ ret'.error = "Voting window is closed"
            /\ votes' = votes]_vars

----------------------------------------------------------------------------
\* The server in the last rounds of a game (SpecEndgameLive): the window of
\* round 41 is open on a board of forty pieces, and the event loop runs
\* fairly

\* the room when processTurnCompletion has opened the window of round 41
EndgameServerInit ==
  /\ \E g \in EndGames :
       /\ board = g.board
       /\ currentTeam = g.currentTeam
       /\ round = g.round
       /\ lastMove = g.lastMove
       /\ timeouts = <<[id |-> g.round, triggerTime |-> RoomTimerSec * MsPerSec, win |-> 1]>>
       /\ nextTimeoutId = g.round + 1
       /\ currentTimeout = Some(g.round)
  /\ votes = << >>
  /\ perColumnCounts = [c \in Cols |-> 0]
  /\ endsAt = Some(deadlineOf(0, RoomTimerSec))
  /\ result = Undefined
  /\ players = InitPlayers
  /\ currentTime = 0
  /\ completionCallback = "server"
  /\ ret = [op |-> "finishVoting", moveApplied |-> TRUE, gameEnded |-> FALSE,
            chosenColumn |-> Some(NumCols - 1), error |-> Undefined]
  /\ windowsOpened = 1
  /\ movesApplied = 0
  /\ cbCalls = 0
  /\ finished = FALSE
  /\ fired = {}
  /\ roomState = "active"
  /\ passwordHash = Undefined
  /\ handlers = [h \in HandlerIds |->
                   IF h = "start" THEN [pc |-> "done", room |-> "none"] ELSE IdleHandler]
  /\ ptc = << >>

EndgameLiveNext ==
  \/ \E h \in LiveVoteHandlers, playerId \in CallerIds, column \in ServerVoteColumns :
       VoteCast(h, playerId, column)
  \/ \E h \in LiveVoteHandlers : VoteGetRoom(h)
  \/ \E h \in LiveVoteHandlers : VoteTally(h)
  \/ \E h \in LiveVoteHandlers : VoteCheck(h)
  \/ \E i \in DOMAIN ptc : TurnContinue(i)
  \/ \E ms \in TickAmounts : AdvanceClock(ms)
  \/ \E i \in DOMAIN timeouts : TimerFire(i)
  \/ \E playerId \in PlayerIds : Disconnect(playerId)

SpecEndgameLive == EndgameServerInit /\ [][EndgameLiveNext]_vars /\ ServerFairness

----------------------------------------------------------------------------
\* A room created with a password (SpecPassword): the server of
\* SpecServerLive, and joinRoom calls with and without the password

RoomPassword == "secret"
JoinPasswords == {Undefined, Some(RoomPassword), Some("guess")}
\* a player of the room who joins again, and a new player
JoinerIds == {"p3", "p4"}

\* AccessControl: a bcrypt hash matches the password it was made from
hashPassword(password) == [bcrypt |-> password]
validatePassword(password, hash) == hash = hashPassword(password)

\* createRoom with a password, and the three players joined with it
PasswordInit ==
  /\ RoomInit({NewGame}, Some(hashPassword(RoomPassword)))

\* joinRoom: the error thrown, "" when the join goes through; every player
\* has a valid nickname of their own and the room is far from full
joinRoomError(playerId, password) ==
  IF IsSet(passwordHash) /\ ~IsSet(password) THEN "PASSWORD_REQUIRED"
  ELSE IF IsSet(passwordHash) /\ IsSet(password)
          /\ ~validatePassword(Val(password), Val(passwordHash)) THEN "INVALID_PASSWORD"
  ELSE ""

\* the team of a new player: the smaller team, red on a tie
joinTeam ==
  LET redCount == Cardinality({p \in DOMAIN players : players[p].team = "red"})
      yellowCount == Cardinality({p \in DOMAIN players : players[p].team = "yellow"})
  IN IF redCount <= yellowCount THEN "red" ELSE "yellow"

\* room:join, RoomService.joinRoom: a known player is marked connected
\* again, a new one is added to the roster
JoinRoom(playerId, password) ==
  /\ ServerExploring
  /\ ret' = [op |-> "joinRoom", playerId |-> playerId,
             error |-> joinRoomError(playerId, password)]
  /\ players' =
       IF joinRoomError(playerId, password) # "" THEN players
       ELSE IF playerId \in DOMAIN players
       THEN [players EXCEPT ![playerId].connected = TRUE]
       ELSE players @@ (playerId :> [team |-> joinTeam, connected |-> TRUE,
                                     isAdmin |-> (DOMAIN players = {}),
                                     matchingVotes |-> 0])
  /\ UNCHANGED <<gameVars, clockVars, tmVars, obsVars, serverVars>>

PasswordNext ==
  \/ ServerLiveNext
  \/ \E playerId \in JoinerIds, password \in JoinPasswords : JoinRoom(playerId, password)

SpecPassword == PasswordInit /\ [][PasswordNext]_vars

\* C39: a room created with a password keeps its stored passwordHash through
\* joins, votes, resolutions and game endings, and every joinRoom of a new
\* player without the correct password is refused.
C39_PasswordStaysRequired ==
  /\ [](passwordHash = Some(hashPassword(RoomPassword)))
  /\ [][\A playerId \in JoinerIds \ DOMAIN players, password \in JoinPasswords :
         (JoinRoom(playerId, password) /\ password # Some(RoomPassword))
           => /\ ret'.error \in {"PASSWORD_REQUIRED", "INVALID_PASSWORD"}
              /\ players' = players]_vars

\* a fourth player is in the roster after a join without any password
C39_JoinedWithoutPassword ==
  /\ "p4" \in DOMAIN players
  /\ ret = [op |-> "joinRoom", playerId |-> "p4", error |-> ""]
  /\ ~IsSet(passwordHash)

\* as long as no sanitized copy has been stored the password is required
C39_RequiredWhileStored ==
  [][\A playerId \in JoinerIds \ DOMAIN players, password \in JoinPasswords :
       (JoinRoom(playerId, password) /\ IsSet(passwordHash) /\ password # Some(RoomPassword))
         => /\ ret'.error \in {"PASSWORD_REQUIRED", "INVALID_PASSWORD"}
            /\ players' = players]_vars

====
